---- MODULE Spec2Model ----
(***************************************************************************)
(* koishi-plugin-w-time-travel (src/src/index.ts).                         *)
(*                                                                         *)
(* The plugin hooks the global Date through ctx-hook's useGlobalCtxHook    *)
(* and runs a command under an override descriptor (TimeTravelConfig).     *)
(* Commands are asynchronous: each Op below is one logical chain of        *)
(* continuations (a session executing a command), and every action is the  *)
(* code that runs between two awaits, so the actions of different Ops      *)
(* interleave exactly at the await points.                                 *)
(*                                                                         *)
(* Time values are epoch milliseconds in the source.  The model uses small *)
(* integers for them; DateTable and DurationTable fix what the host's      *)
(* Date parser and parse-duration return for the tokens the model feeds.   *)
(***************************************************************************)
EXTENDS Integers, Sequences, FiniteSets, TLC

VARIABLES
    loaded,     \* the plugin is applied and the Date hook is installed
    realNow,    \* Date0.now(): the real clock
    pc,         \* per Op: where its command chain is suspended
    store,      \* per Op: the AsyncLocalStorage store of its current context
    frames,     \* per Op: the wrap() calls whose body is still running
    started,    \* how many activations have begun
    ended,      \* how many teardowns have run
    warps,      \* table 'w-time-travel-warp': its rows, in insertion order
    local,      \* per Op: locals of a warp command held across an await
    ev          \* the latest step of a command, and what it returned

vars == <<loaded, realNow, pc, store, frames, started, ended, warps, local, ev>>

----------------------------------------------------------------------------
(* Bounds *)

MaxDepth == 3
MaxActs  == 3
MaxTime  == 1

\* Two command chains run concurrently.
Ops == {1, 2}

----------------------------------------------------------------------------
(* Values *)

Relative == "Relative"
Absolute == "Absolute"

\* `undefined`, as als.getStore() and a missing row give it; `x?.mode` of it
\* is neither mode.
undefined == [mode |-> "undefined", param |-> 0]

TimeTravelConfig(mode, param) == [mode |-> mode, param |-> param]

TimeTravelWarp(id, config) == [id |-> id, mode |-> config.mode, param |-> config.param]

\* A number-or-nothing result: {} stands for NaN / null, {v} for the number v.
NaN  == {}
null == {}
Num(v) == {v}
ValueOf(n) == CHOOSE v \in n : TRUE

\* new Date(param).getTime() of the host for the date tokens of the model.
DateTable == [s \in {"d10", "d20"} |-> IF s = "d10" THEN 10 ELSE 20]
DateStrs  == {"d10", "d20", "someday"}

DateGetTime(s) == IF s \in DOMAIN DateTable THEN Num(DateTable[s]) ELSE NaN

isNaN(n) == n = NaN

\* A number of milliseconds that is no integer: one and a half.
HalfMs == [ms |-> 3, over |-> 2]

\* parseDuration(param) for the duration tokens of the model: a number of
\* milliseconds, whole or not ("1.5ms", as "1ns" or "0.1ms").
DurationTable == [s \in {"1h", "-2h", "1.5ms"} |->
                    CASE s = "1h"  -> 1
                      [] s = "-2h" -> -2
                      [] OTHER     -> HalfMs]
DeltaStrs     == {"1h", "soon"}

parseDuration(s) == IF s \in DOMAIN DurationTable THEN Num(DurationTable[s]) ELSE null

\* String.prototype.toLowerCase for the mode tokens of the model.
ModeStrs == {"to", "by", "By", "at"}

toLowerCase(s) ==
    CASE s = "TO" -> "to"
      [] s = "By" -> "by"
      [] s = "BY" -> "by"
      [] OTHER    -> s

\* The <mode> <param> arguments given to time.travel.warp.create.
CreateArgs == {<<"to", "d20">>, <<"By", "1h">>, <<"at", "1h">>,
               <<"to", "soon">>, <<"by", "d20">>}

WarpIds == {"a"}

Errors == {"InvalidMode", "InvalidTarget", "InvalidDelta",
           "NestedRelativeNotAllowed", "WarpNotFound", "WarpAlreadyExists"}

----------------------------------------------------------------------------
(* Pure functions of the source.  A failing function returns [err |-> kind], *)
(* a succeeding one [err |-> "ok", ...].                                     *)

Fail(kind) == [err |-> kind]

parseTimeTravelMode(mode) ==
    CASE toLowerCase(mode) = "to" -> [err |-> "ok", mode |-> Absolute]
      [] toLowerCase(mode) = "by" -> [err |-> "ok", mode |-> Relative]
      [] OTHER                    -> Fail("InvalidMode")

parseTimeTravelConfig(mode, param) ==
    IF mode = Absolute
    THEN LET target == DateGetTime(param)
         IN  IF isNaN(target) THEN Fail("InvalidTarget")
             ELSE [err |-> "ok", config |-> TimeTravelConfig(Absolute, ValueOf(target))]
    ELSE LET delta == parseDuration(param)
         IN  IF delta = null THEN Fail("InvalidDelta")
             ELSE [err |-> "ok", config |-> TimeTravelConfig(Relative, ValueOf(delta))]

----------------------------------------------------------------------------
(* The Date hook: useGlobalCtxHook('Date', (Date0, config) => new Proxy(...)) *)

\* A Date instance built by the real constructor, new Date0(time).
Date0(time) == [time |-> time]

\* Date0.prototype.toString of such an instance.
toString(date) == [str |-> date.time]

\* A hook that forgets to read the real clock for a relative travel.
getTravelledNowParam(config, now0) == config.param

getTravelledNow(config, now0) ==
    IF config.mode = Absolute THEN config.param ELSE now0 + config.param

\* A hook whose no-argument constructor is not intercepted.
getTravelledDateReal(config, now0) == Date0(now0)

getTravelledDate(config, now0) == Date0(getTravelledNow(config, now0))

\* A `construct` trap that answers with the travelled time whatever the arguments.
constructTravelled(config, now0, args) == getTravelledDate(config, now0)

\* Proxy trap `construct`: new Date(...args).
construct(config, now0, args) ==
    IF Len(args) = 0 THEN getTravelledDate(config, now0) ELSE Date0(args[1])

\* Proxy trap `apply`: Date().
apply(config, now0) == toString(getTravelledDate(config, now0))

\* Proxy trap `get` followed by a call: Date.now().
getNow(config, now0) == getTravelledNow(config, now0)

\* Date0[prop]: a member of the real Date other than `now`.
Date0Member(prop) == [of |-> "Date0", member |-> prop]

\* Proxy trap `get`: Date[prop].
getProp(config, now0, prop) ==
    IF prop = "now" THEN getTravelledNow(config, now0) ELSE Date0Member(prop)

----------------------------------------------------------------------------
(* The activation context: als / wrap of useGlobalCtxHook *)

\* A store kept in one shared slot instead of per context: whichever
\* chain has an override, every chain sees it.
getStoreShared(t) == IF store[1] # undefined THEN store[1] ELSE store[2]

\* als.getStore() called from Op t's current context.
getStore(t) == store[t]

\* The store a context is left with when the body of wrap(fn, config)
\* completes: the one of the context that called wrap.
exitStore(frame) == frame.prev

\* The global `Date` as Op t's code resolves it: the hooked Date under the
\* store of the calling context, the real Date otherwise.
Hooked(t) == loaded /\ getStore(t) # undefined

\* Date.now() and new Date() evaluated by Op t.
ReadClock(t, form) ==
    IF Hooked(t)
    THEN IF form = "now" THEN getNow(getStore(t), realNow)
                         ELSE construct(getStore(t), realNow, <<>>)
    ELSE IF form = "now" THEN realNow ELSE Date0(realNow)

QueryForms == {"now", "new"}

\* The other uses of Date: new Date(time), Date.parse, Date.UTC and Date().
ArgTime == 5

OtherForms == {"args", "parse", "UTC", "call"}

\* Those uses evaluated by Op t.
UseClock(t, form) ==
    IF Hooked(t)
    THEN CASE form = "args" -> construct(getStore(t), realNow, <<ArgTime>>)
           [] form = "call" -> apply(getStore(t), realNow)
           [] OTHER         -> getProp(getStore(t), realNow, form)
    ELSE CASE form = "args" -> Date0(ArgTime)
           [] form = "call" -> toString(Date0(realNow))
           [] OTHER         -> Date0Member(form)

----------------------------------------------------------------------------
(* History the properties are stated over: not read by the program *)

NoFrame == [cfg |-> undefined, prev |-> undefined,
            req |-> undefined, outer |-> undefined, t0 |-> 0]

\* The innermost activation of Op t whose body is still running.
Top(t) == IF frames[t] = <<>> THEN NoFrame ELSE frames[t][Len(frames[t])]

\* The descriptor of that activation: the override Op t's scope owns.
Own(t) == Top(t).cfg

\* The latest step: its kind, the Op that took it, how it ended, the
\* descriptor a travel step asked for and what a query returned.
Event(kind, t, outcome, req, form, val) ==
    [kind |-> kind, op |-> t, outcome |-> outcome, req |-> req,
     form |-> form, val |-> val]

Step(kind, t, outcome) == Event(kind, t, outcome, undefined, "none", 0)

----------------------------------------------------------------------------
(* travel: lines 131-147 *)

\* travel without the addition under an absolute parent.
travelConfigNoAdd(config, parentConfig) ==
    IF config.mode = Relative /\ parentConfig.mode = Relative
    THEN Fail("NestedRelativeNotAllowed")
    ELSE [err |-> "ok", config |-> config]

\* travel without the rejection under a relative parent.
travelConfigNoReject(config, parentConfig) ==
    IF config.mode = Relative /\ parentConfig.mode = Absolute
    THEN [err |-> "ok",
          config |-> TimeTravelConfig(Absolute, parentConfig.param + config.param)]
    ELSE [err |-> "ok", config |-> config]

\* travel that adds to an absolute parent whatever the mode asked for.
travelConfigAlwaysAdd(config, parentConfig) ==
    IF config.mode = Relative /\ parentConfig.mode = Relative
    THEN Fail("NestedRelativeNotAllowed")
    ELSE IF parentConfig.mode = Absolute
         THEN [err |-> "ok",
               config |-> TimeTravelConfig(Absolute, parentConfig.param + config.param)]
         ELSE [err |-> "ok", config |-> config]

\* The descriptor travel hands to wrap, or the failure it throws.
travelConfig(config, parentConfig) ==
    IF config.mode = Relative
    THEN IF parentConfig.mode = Relative
         THEN Fail("NestedRelativeNotAllowed")
         ELSE IF parentConfig.mode = Absolute
              THEN [err |-> "ok",
                    config |-> TimeTravelConfig(Absolute, parentConfig.param + config.param)]
              ELSE [err |-> "ok", config |-> config]
    ELSE [err |-> "ok", config |-> config]

\* A request that throws only after it has installed an override.
RejectAfterInstall(kind, t, req, err) ==
    /\ ev' = Event(kind, t, err, req, "none", 0)
    /\ store' = [store EXCEPT ![t] = TimeTravelConfig(Absolute, 0)]
    /\ UNCHANGED <<frames, started, ended>>

\* A request that throws before wrap is reached.
Reject(kind, t, req, err) ==
    /\ ev' = Event(kind, t, err, req, "none", 0)
    /\ UNCHANGED <<store, frames, started, ended>>

\* An activation that enters the store for good (als.enterWith) instead of
\* running the body under it: nothing is left to restore.
ActivateEnterWith(kind, t, req, config) ==
    /\ Len(frames[t]) < MaxDepth
    /\ started < MaxActs
    /\ frames' = [frames EXCEPT ![t] =
                    Append(@, [cfg |-> config, prev |-> config,
                               req |-> req, outer |-> Own(t), t0 |-> realNow])]
    /\ store' = [store EXCEPT ![t] = config]
    /\ started' = started + 1
    /\ ev' = Event(kind, t, "ok", req, "none", 0)
    /\ UNCHANGED ended

\* wrap(() => session.execute(command), config)(): the body starts under config.
Activate(kind, t, req, config) ==
    /\ Len(frames[t]) < MaxDepth
    /\ started < MaxActs
    /\ frames' = [frames EXCEPT ![t] =
                    Append(@, [cfg |-> config, prev |-> store[t],
                               req |-> req, outer |-> Own(t), t0 |-> realNow])]
    /\ store' = [store EXCEPT ![t] = config]
    /\ started' = started + 1
    /\ UNCHANGED ended
    /\ ev' = Event(kind, t, "ok", req, "none", 0)

\* A travel that wraps the command in the descriptor as it was asked for.
travelUnchecked(kind, t, config) == Activate(kind, t, config, config)

\* A travel that consults the outermost override of the chain, not the
\* nearest one.
travelOutermost(kind, t, config) ==
    LET parent == IF frames[t] = <<>> THEN undefined ELSE frames[t][1].cfg
        r == travelConfig(config, parent)
    IN  IF r.err # "ok" THEN Reject(kind, t, config, r.err)
                        ELSE Activate(kind, t, config, r.config)

\* travel(config, session, command)
travel(kind, t, config) ==
    LET r == travelConfig(config, getStore(t))
    IN  IF r.err # "ok" THEN Reject(kind, t, config, r.err)
                        ELSE Activate(kind, t, config, r.config)

----------------------------------------------------------------------------
(* The table 'w-time-travel-warp' (ctx.database), primary key id *)

\* ctx.database.get(table, id): the rows with that id.
get(table, id) == SelectSeq(table, LAMBDA r : r.id = id)

\* const [ warp ] = rows
First(rows) == IF rows = <<>> THEN undefined ELSE rows[1]

\* ctx.database.create(table, row): the table refuses a second row with the
\* primary key of an existing one.
create(table, row) ==
    IF get(table, row.id) # <<>> THEN [err |-> "DuplicateEntry", table |-> table]
    ELSE [err |-> "ok", table |-> Append(table, row)]

\* A removal that leaves the table as it is.
removeNone(table, id) == table

\* A removal that forgets the id: every row goes.
removeAll(table, id) == SelectSeq(table, LAMBDA r : FALSE)

\* ctx.database.remove(table, id)
remove(table, id) == SelectSeq(table, LAMBDA r : r.id # id)

----------------------------------------------------------------------------
(* Initial state: the plugin has just been applied *)

NoLocal == [id |-> "", warp |-> undefined, mode |-> "", param |-> "",
            config |-> undefined]

Init ==
    /\ loaded = TRUE
    /\ realNow = 0
    /\ pc = [t \in Ops |-> "idle"]
    /\ store = [t \in Ops |-> undefined]
    /\ frames = [t \in Ops |-> <<>>]
    /\ started = 0
    /\ ended = 0
    /\ warps = <<>>
    /\ local = [t \in Ops |-> NoLocal]
    /\ ev = [kind |-> "init", op |-> 0, outcome |-> "ok", req |-> undefined,
             form |-> "none", val |-> 0]

----------------------------------------------------------------------------
(* Actions *)

\* The real clock advances.
Tick ==
    /\ loaded
    /\ realNow < MaxTime
    /\ realNow' = realNow + 1
    /\ ev' = Step("tick", 0, "ok")
    /\ UNCHANGED <<loaded, pc, store, frames, started, ended, warps, local>>

\* A session starts executing a command, outside any activation.
Begin(t) ==
    /\ loaded
    /\ pc[t] = "idle"
    /\ pc' = [pc EXCEPT ![t] = "run"]
    /\ ev' = Step("begin", t, "ok")
    /\ UNCHANGED <<loaded, realNow, store, frames, started, ended, warps, local>>

\* The running command reads the clock: Date.now() or new Date().
Query(t, form) ==
    /\ loaded
    /\ pc[t] = "run"
    /\ ev' = Event("query", t, "ok", undefined, form, ReadClock(t, form))
    /\ UNCHANGED <<loaded, realNow, pc, store, frames, started, ended, warps, local>>

\* time.travel.to <date> <command>
TravelTo(t, date) ==
    /\ loaded
    /\ pc[t] = "run"
    /\ LET p == parseTimeTravelConfig(Absolute, date)
       IN  IF p.err # "ok"
           THEN Reject("travel.to", t, undefined, p.err)
           ELSE travel("travel.to", t, p.config)
    /\ UNCHANGED <<loaded, realNow, pc, warps, local>>

\* time.travel.by <delta> <command>
TravelBy(t, delta) ==
    /\ loaded
    /\ pc[t] = "run"
    /\ LET p == parseTimeTravelConfig(Relative, delta)
       IN  IF p.err # "ok"
           THEN Reject("travel.by", t, undefined, p.err)
           ELSE travel("travel.by", t, p.config)
    /\ UNCHANGED <<loaded, realNow, pc, warps, local>>

\* The running command uses Date in another way.
Use(t, form) ==
    /\ loaded
    /\ pc[t] = "run"
    /\ ev' = Event("use", t, "ok", undefined, form, UseClock(t, form))
    /\ UNCHANGED <<loaded, realNow, pc, store, frames, started, ended, warps, local>>

\* A completion that leaves the store of the finished activation behind.
ExitLeak(t, how) ==
    /\ loaded
    /\ pc[t] = "run"
    /\ frames[t] # <<>>
    /\ frames' = [frames EXCEPT ![t] = SubSeq(@, 1, Len(@) - 1)]
    /\ ended' = ended + 1
    /\ ev' = Event(how, t, "ok", Top(t).req, "none", Top(t).t0)
    /\ UNCHANGED <<loaded, realNow, pc, store, started, warps, local>>

\* The wrapped command of Op t's innermost activation completes, by a normal
\* return or by a thrown error (a rejected promise); the event keeps what the
\* finished activation had asked for and when it had begun.
Exit(t, how) ==
    /\ loaded
    /\ pc[t] = "run"
    /\ frames[t] # <<>>
    /\ frames' = [frames EXCEPT ![t] = SubSeq(@, 1, Len(@) - 1)]
    /\ store' = [store EXCEPT ![t] = exitStore(Top(t))]
    /\ ended' = ended + 1
    /\ UNCHANGED started
    /\ ev' = Event(how, t, "ok", Top(t).req, "none", Top(t).t0)
    /\ UNCHANGED <<loaded, realNow, pc, warps, local>>

\* The top-level command of Op t completes.
End(t) ==
    /\ loaded
    /\ pc[t] = "run"
    /\ frames[t] = <<>>
    /\ pc' = [pc EXCEPT ![t] = "idle"]
    /\ ev' = Step("end", t, "ok")
    /\ UNCHANGED <<loaded, realNow, store, frames, started, ended, warps, local>>

\* time.travel.warp <id> <command>: ctx.database.get is issued and reads the table.
WarpGet(t, id) ==
    /\ loaded
    /\ pc[t] = "run"
    /\ pc' = [pc EXCEPT ![t] = "warp.got"]
    /\ local' = [local EXCEPT ![t] = [NoLocal EXCEPT !.id = id, !.warp = First(get(warps, id))]]
    /\ ev' = Step("warp.get", t, "ok")
    /\ UNCHANGED <<loaded, realNow, store, frames, started, ended, warps>>

\* A warp command that wraps the command in the row as it is stored.
WarpTravelDirect(t) ==
    /\ loaded
    /\ pc[t] = "warp.got"
    /\ IF local[t].warp = undefined
       THEN Reject("travel.warp", t, undefined, "WarpNotFound")
       ELSE Activate("travel.warp", t, local[t].warp, local[t].warp)
    /\ pc' = [pc EXCEPT ![t] = "run"]
    /\ local' = [local EXCEPT ![t] = NoLocal]
    /\ UNCHANGED <<loaded, realNow, warps>>

\* ... and the command resumes with the row it read.
WarpTravel(t) ==
    /\ loaded
    /\ pc[t] = "warp.got"
    /\ IF local[t].warp = undefined
       THEN Reject("travel.warp", t, undefined, "WarpNotFound")
       ELSE travel("travel.warp", t, local[t].warp)
    /\ pc' = [pc EXCEPT ![t] = "run"]
    /\ local' = [local EXCEPT ![t] = NoLocal]
    /\ UNCHANGED <<loaded, realNow, warps>>

\* time.travel.warp.create <id> <mode> <param>: the existence check reads the table.
CreateGet(t, id, mode, param) ==
    /\ loaded
    /\ pc[t] = "run"
    /\ pc' = [pc EXCEPT ![t] = "create.got"]
    /\ local' = [local EXCEPT ![t] =
                   [NoLocal EXCEPT !.id = id, !.warp = First(get(warps, id)), !.mode = mode, !.param = param]]
    /\ ev' = Step("create.get", t, "ok")
    /\ UNCHANGED <<loaded, realNow, store, frames, started, ended, warps>>

\* A create command that does not look at the row it read.
createConfigOverwrite(warp, mode, param) ==
    LET m == parseTimeTravelMode(mode)
    IN  IF m.err # "ok" THEN m ELSE parseTimeTravelConfig(m.mode, param)

\* What the create command does with the row it read, up to ctx.database.create.
createConfig(warp, mode, param) ==
    IF warp # undefined THEN Fail("WarpAlreadyExists")
    ELSE LET m == parseTimeTravelMode(mode)
         IN  IF m.err # "ok" THEN m ELSE parseTimeTravelConfig(m.mode, param)

\* ... the command resumes: it fails, or issues ctx.database.create.
CreateCheck(t) ==
    /\ loaded
    /\ pc[t] = "create.got"
    /\ LET c == createConfig(local[t].warp, local[t].mode, local[t].param)
       IN  IF c.err # "ok"
           THEN /\ pc' = [pc EXCEPT ![t] = "run"]
                /\ local' = [local EXCEPT ![t] = NoLocal]
                /\ ev' = Event("create", t, c.err, local[t].warp, "none", 0)
           ELSE /\ pc' = [pc EXCEPT ![t] = "create.put"]
                /\ local' = [local EXCEPT ![t].config = c.config]
                /\ ev' = Step("create.check", t, "ok")
    /\ UNCHANGED <<loaded, realNow, store, frames, started, ended, warps>>

\* An insertion into a table that has no key.
CreatePutBlind(t) ==
    /\ loaded
    /\ pc[t] = "create.put"
    /\ LET row == TimeTravelWarp(local[t].id, local[t].config)
       IN  /\ warps' = Append(warps, row)
           /\ ev' = Event("create", t, "created", row, "none", 0)
    /\ pc' = [pc EXCEPT ![t] = "run"]
    /\ local' = [local EXCEPT ![t] = NoLocal]
    /\ UNCHANGED <<loaded, realNow, store, frames, started, ended>>

\* ... the table inserts the row, unless the primary key id is taken.
CreatePut(t) ==
    /\ loaded
    /\ pc[t] = "create.put"
    /\ LET row == TimeTravelWarp(local[t].id, local[t].config)
           c == create(warps, row)
       IN  /\ warps' = c.table
           /\ ev' = Event("create", t, IF c.err = "ok" THEN "created" ELSE c.err,
                          row, "none", 0)
    /\ pc' = [pc EXCEPT ![t] = "run"]
    /\ local' = [local EXCEPT ![t] = NoLocal]
    /\ UNCHANGED <<loaded, realNow, store, frames, started, ended>>

\* time.travel.warp.delete <id>: the existence check reads the table.
DeleteGet(t, id) ==
    /\ loaded
    /\ pc[t] = "run"
    /\ pc' = [pc EXCEPT ![t] = "delete.got"]
    /\ local' = [local EXCEPT ![t] = [NoLocal EXCEPT !.id = id, !.warp = First(get(warps, id))]]
    /\ ev' = Step("delete.get", t, "ok")
    /\ UNCHANGED <<loaded, realNow, store, frames, started, ended, warps>>

\* ... the command resumes: it fails, or issues ctx.database.remove.
DeleteCheck(t) ==
    /\ loaded
    /\ pc[t] = "delete.got"
    /\ IF local[t].warp = undefined
       THEN /\ pc' = [pc EXCEPT ![t] = "run"]
            /\ local' = [local EXCEPT ![t] = NoLocal]
            /\ ev' = Step("delete", t, "WarpNotFound")
       ELSE /\ pc' = [pc EXCEPT ![t] = "delete.rm"]
            /\ ev' = Step("delete.check", t, "ok")
            /\ UNCHANGED local
    /\ UNCHANGED <<loaded, realNow, store, frames, started, ended, warps>>

\* ... the table removes the rows with that id.
DeleteRemove(t) ==
    /\ loaded
    /\ pc[t] = "delete.rm"
    /\ warps' = remove(warps, local[t].id)
    /\ ev' = Event("delete", t, "deleted", local[t].warp, "none", 0)
    /\ pc' = [pc EXCEPT ![t] = "run"]
    /\ local' = [local EXCEPT ![t] = NoLocal]
    /\ UNCHANGED <<loaded, realNow, store, frames, started, ended>>

\* ctx.on('dispose', dispose): the plugin is unloaded and the hook removed.
Dispose ==
    /\ loaded
    /\ loaded' = FALSE
    /\ ev' = Step("dispose", 0, "ok")
    /\ UNCHANGED <<realNow, pc, store, frames, started, ended, warps, local>>

\* The travel engine: two chains travel, ad hoc, and read the clock.
Next ==
    \/ Tick
    \/ \E t \in Ops : Begin(t)
    \/ \E t \in Ops, form \in QueryForms : Query(t, form)
    \/ \E t \in Ops, date \in DateStrs : TravelTo(t, date)
    \/ \E t \in Ops, delta \in DeltaStrs : TravelBy(t, delta)
    \/ \E t \in Ops, how \in {"return", "throw"} : Exit(t, how)
    \/ \E t \in Ops : End(t)
    \/ Dispose

Spec == Init /\ [][Next]_vars

\* The warp registry: both chains create and delete warp points, as top-level
\* commands; chain 1 also travels, ad hoc and by warp point, and reads the
\* clock.  The real clock stands still.
Traveller == {1}

TopLevel(t) == frames[t] = <<>>

NextWarp ==
    \/ \E t \in Ops : Begin(t)
    \/ \E t \in Traveller, form \in QueryForms : Query(t, form)
    \/ \E t \in Traveller, date \in DateStrs : TravelTo(t, date)
    \/ \E t \in Traveller, delta \in DeltaStrs : TravelBy(t, delta)
    \/ \E t \in Traveller, how \in {"return", "throw"} : Exit(t, how)
    \/ \E t \in Ops : End(t)
    \/ \E t \in Traveller, id \in WarpIds : WarpGet(t, id)
    \/ \E t \in Traveller : WarpTravel(t)
    \/ \E t \in Ops, id \in WarpIds, a \in CreateArgs :
            TopLevel(t) /\ CreateGet(t, id, a[1], a[2])
    \/ \E t \in Ops : CreateCheck(t)
    \/ \E t \in Ops : CreatePut(t)
    \/ \E t \in Ops, id \in WarpIds : TopLevel(t) /\ DeleteGet(t, id)
    \/ \E t \in Ops : DeleteCheck(t)
    \/ \E t \in Ops : DeleteRemove(t)
    \/ Dispose

SpecWarp == Init /\ [][NextWarp]_vars

\* The clock of one chain: chain 1 travels, ad hoc, and uses Date in every way
\* while the real clock advances.
NextClock ==
    \/ Tick
    \/ \E t \in Traveller : Begin(t)
    \/ \E t \in Traveller, form \in QueryForms : Query(t, form)
    \/ \E t \in Traveller, form \in OtherForms : Use(t, form)
    \/ \E t \in Traveller, date \in DateStrs : TravelTo(t, date)
    \/ \E t \in Traveller, delta \in DeltaStrs : TravelBy(t, delta)
    \/ \E t \in Traveller, how \in {"return", "throw"} : Exit(t, how)
    \/ \E t \in Traveller : End(t)
    \/ Dispose

SpecClock == Init /\ [][NextClock]_vars

\* Parsing: both chains create warp points, and chain 1 travels, ad hoc and by
\* warp point, from the top level, with arguments of every kind: well-formed,
\* malformed, and a duration with a fraction of a millisecond.
ParseDeltas == DeltaStrs \cup {"1.5ms"}

ParseArgs == CreateArgs \cup {<<"by", "1.5ms">>}

NextParse ==
    \/ \E t \in Ops : Begin(t)
    \/ \E t \in Ops : End(t)
    \/ \E t \in Traveller, date \in DateStrs : TopLevel(t) /\ TravelTo(t, date)
    \/ \E t \in Traveller, delta \in ParseDeltas : TopLevel(t) /\ TravelBy(t, delta)
    \/ \E t \in Traveller, id \in WarpIds : TopLevel(t) /\ WarpGet(t, id)
    \/ \E t \in Traveller : WarpTravel(t)
    \/ \E t \in Traveller, how \in {"return", "throw"} : Exit(t, how)
    \/ \E t \in Ops, id \in WarpIds, a \in ParseArgs :
            TopLevel(t) /\ CreateGet(t, id, a[1], a[2])
    \/ \E t \in Ops : CreateCheck(t)
    \/ \E t \in Ops : CreatePut(t)
    \/ Dispose

SpecParse == Init /\ [][NextParse]_vars

\* The registry alone: both chains create and delete warp points under two
\* ids, and their reads and writes of the table interleave.
RegistryIds == {"a", "b"}

NextRegistry ==
    \/ \E t \in Ops : Begin(t)
    \/ \E t \in Ops : End(t)
    \/ \E t \in Ops, id \in RegistryIds, a \in CreateArgs :
            CreateGet(t, id, a[1], a[2])
    \/ \E t \in Ops : CreateCheck(t)
    \/ \E t \in Ops : CreatePut(t)
    \/ \E t \in Ops, id \in RegistryIds : DeleteGet(t, id)
    \/ \E t \in Ops : DeleteCheck(t)
    \/ \E t \in Ops : DeleteRemove(t)
    \/ Dispose

SpecRegistry == Init /\ [][NextRegistry]_vars

----------------------------------------------------------------------------
(* What the specification says a query returns *)

\* The time an override descriptor stands for at real time now.
ExpectedNow(descriptor, now) ==
    CASE descriptor.mode = Absolute -> descriptor.param
      [] descriptor.mode = Relative -> now + descriptor.param
      [] OTHER                      -> now

\* The answer of a query of that time: a timestamp, or an instant.
Answer(form, time) == IF form = "now" THEN time ELSE [time |-> time]

InFlight(t) == frames[t] # <<>>

Other(t) == CHOOSE u \in Ops : u # t

IsQuery == ev.kind = "query"

TravelKinds == {"travel.to", "travel.by", "travel.warp"}

ExitKinds == {"return", "throw"}

\* The step is the completion of the innermost activation of Op t.
Exiting(t) == Len(frames'[t]) < Len(frames[t])

----------------------------------------------------------------------------
(* Properties *)

\* C1 (isolation): while both chains are inside activations with different
\* descriptors, a query made by one of them returns the time of its own
\* descriptor and not the time of the other chain's descriptor.
Isolation_C1 ==
    (IsQuery /\ InFlight(1) /\ InFlight(2) /\ Own(1) # Own(2)) =>
        /\ ev.val = Answer(ev.form, ExpectedNow(Own(ev.op), realNow))
        /\ ev.val # Answer(ev.form, ExpectedNow(Own(Other(ev.op)), realNow))

Isolation_C1_Witness ==
    /\ IsQuery /\ InFlight(1) /\ InFlight(2) /\ Own(1) # Own(2)
    /\ Top(Other(ev.op)).t0 > Top(ev.op).t0
    /\ ev.val = Answer(ev.form, ExpectedNow(Own(ev.op), realNow))

\* C2 (restoration): when an activation ends, by return or by throw, the
\* override of the enclosing scope is the one that was visible right before
\* the activation began, and once a chain is outside every activation again
\* its queries return the real clock's time.
Restoration_C2 ==
    /\ [][\A t \in Ops : Exiting(t) =>
            /\ store'[t] = Top(t).outer
            /\ \A form \in QueryForms :
                 ReadClock(t, form)' = Answer(form, ExpectedNow(Top(t).outer, realNow'))]_vars
    /\ []((IsQuery /\ ~InFlight(ev.op) /\ ended > 0) =>
            ev.val = Answer(ev.form, realNow))

Restoration_C2_Witness ==
    /\ IsQuery /\ ~InFlight(ev.op) /\ ended > 0
    /\ \A t \in Ops : ~InFlight(t)
    /\ ev.val = Answer(ev.form, realNow)

\* C3 (no leak): every activation that is no longer running has been torn
\* down exactly once and none that is running has been, and whenever no
\* activation is in flight every chain resolves the real clock.
NoLeak_C3 ==
    /\ ended <= started
    /\ started - ended = Len(frames[1]) + Len(frames[2])
    /\ (\A t \in Ops : ~InFlight(t)) =>
           \A t \in Ops, form \in QueryForms :
               ~Hooked(t) /\ ReadClock(t, form) = Answer(form, realNow)

\* Two overlapping activations of different chains, the one that began first
\* also ending first.
NoLeak_C3_Witness ==
    /\ ev.kind \in ExitKinds
    /\ ~InFlight(ev.op)
    /\ InFlight(Other(ev.op))
    /\ Len(frames[Other(ev.op)]) = 1
    /\ Top(Other(ev.op)).t0 > ev.val
    /\ ~Hooked(ev.op)

\* C4 (nesting): a relative travel by d requested inside an override
\* {Absolute, A} runs under {Absolute, A + d}, every query inside it returns
\* A + d, and when it ends the enclosing scope is under {Absolute, A} again.
Nesting_C4 ==
    /\ [](\A t \in Ops : \A i \in DOMAIN frames[t] :
            (frames[t][i].req.mode = Relative /\ frames[t][i].outer.mode = Absolute) =>
                frames[t][i].cfg =
                    TimeTravelConfig(Absolute, frames[t][i].outer.param + frames[t][i].req.param))
    /\ []((IsQuery /\ Top(ev.op).req.mode = Relative /\ Top(ev.op).outer.mode = Absolute) =>
            ev.val = Answer(ev.form, Top(ev.op).outer.param + Top(ev.op).req.param))
    /\ [][\A t \in Ops :
            (Exiting(t) /\ Top(t).req.mode = Relative /\ Top(t).outer.mode = Absolute) =>
                /\ store'[t] = Top(t).outer
                /\ \A form \in QueryForms :
                     ReadClock(t, form)' = Answer(form, Top(t).outer.param)]_vars

Nesting_C4_Witness ==
    /\ IsQuery
    /\ Top(ev.op).req = TimeTravelConfig(Relative, 1)
    /\ Top(ev.op).outer = TimeTravelConfig(Absolute, 10)
    /\ ev.val = Answer(ev.form, 11)

\* C5 (rejection): a relative travel requested while the override of the
\* calling scope is relative fails with NestedRelativeNotAllowed, starts no
\* activation, and leaves the outer override active: a query in the outer
\* scope still returns the real time plus the outer delta.
Rejection_C5 ==
    [][\A t \in Ops :
        (ev'.kind \in TravelKinds /\ ev'.op = t /\ ev'.req.mode = Relative
           /\ Own(t).mode = Relative) =>
            /\ ev'.outcome = "NestedRelativeNotAllowed"
            /\ UNCHANGED <<store, frames, started, ended>>
            /\ \A form \in QueryForms :
                 ReadClock(t, form)' = Answer(form, realNow' + Own(t).param)]_vars

Rejection_C5_Witness ==
    /\ ev.kind = "travel.by"
    /\ ev.outcome = "NestedRelativeNotAllowed"
    /\ Own(ev.op) = TimeTravelConfig(Relative, 1)
    /\ store[ev.op] = Own(ev.op)

\* C6 (combination, unchanged cases): the descriptor of an activation is the
\* requested one, unchanged, when no override was active in the calling scope
\* and when the requested one is absolute, whatever the calling scope's
\* override; such a request is never rejected.
Unchanged_C6 ==
    /\ \A t \in Ops : \A i \in DOMAIN frames[t] :
          (frames[t][i].outer = undefined \/ frames[t][i].req.mode = Absolute) =>
              frames[t][i].cfg = frames[t][i].req
    /\ (ev.kind \in TravelKinds /\ ev.req.mode = Absolute) =>
          (ev.outcome = "ok" /\ store[ev.op] = ev.req)

Unchanged_C6_Witness ==
    \E t \in Ops :
        /\ Len(frames[t]) = 2
        /\ frames[t][2].outer = TimeTravelConfig(Absolute, 20)
        /\ frames[t][2].req = TimeTravelConfig(Absolute, 10)
        /\ frames[t][2].cfg = TimeTravelConfig(Absolute, 10)
        /\ ev.kind = "travel.to" /\ ev.op = t

\* C7: inside an activation of {Absolute, P} every query, Date.now() and
\* new Date() alike, returns P, however far the real clock has advanced.
AbsoluteConstant_C7 ==
    (IsQuery /\ Own(ev.op).mode = Absolute) =>
        ev.val = Answer(ev.form, Own(ev.op).param)

AbsoluteConstant_C7_Witness ==
    /\ IsQuery /\ ev.form = "new"
    /\ Own(ev.op).mode = Absolute
    /\ realNow > Top(ev.op).t0
    /\ ev.val = [time |-> Own(ev.op).param]

\* C8: inside an activation of {Relative, d} a query made at real time t1
\* returns t1 + d: the real clock is read at the query.
RelativeFresh_C8 ==
    (IsQuery /\ Own(ev.op).mode = Relative) =>
        ev.val = Answer(ev.form, realNow + Own(ev.op).param)

RelativeFresh_C8_Witness ==
    /\ IsQuery /\ ev.form = "now"
    /\ Own(ev.op).mode = Relative
    /\ realNow > Top(ev.op).t0
    /\ ev.val = realNow + Own(ev.op).param
    /\ ev.val # Top(ev.op).t0 + Own(ev.op).param

\* C9 (validation precedes activation): a travel request that fails with
\* InvalidTarget, InvalidDelta, NestedRelativeNotAllowed or WarpNotFound starts
\* no activation and leaves the store, and the clock every chain resolves, as
\* they were.
ValidationFirst_C9 ==
    [][(ev'.kind \in TravelKinds
          /\ ev'.outcome \in {"InvalidTarget", "InvalidDelta",
                              "NestedRelativeNotAllowed", "WarpNotFound"}) =>
            /\ UNCHANGED <<store, frames, started, ended>>
            /\ \A t \in Ops : Hooked(t)' = Hooked(t)]_vars

ValidationFirst_C9_Witness ==
    /\ ev.kind = "travel.warp"
    /\ ev.outcome = "WarpNotFound"
    /\ InFlight(ev.op)
    /\ store[ev.op] = Own(ev.op)

\* C10: while one chain's activation is in flight, a query made by the other
\* chain, which is inside no activation, returns the real clock's time.
Bystander_C10 ==
    (IsQuery /\ ~InFlight(ev.op) /\ InFlight(Other(ev.op))) =>
        ev.val = Answer(ev.form, realNow)

Bystander_C10_Witness ==
    /\ IsQuery /\ ~InFlight(ev.op) /\ InFlight(Other(ev.op))
    /\ realNow > Top(Other(ev.op)).t0
    /\ ev.val = Answer(ev.form, realNow)

----------------------------------------------------------------------------
(* Warp points *)

\* The descriptor of a stored row or of a request: its mode and its param.
Descriptor(x) == IF x = undefined THEN undefined ELSE TimeTravelConfig(x.mode, x.param)

\* The nesting table of ad-hoc travel: what a requested descriptor d becomes
\* under the override outer of the requesting chain.
Combined(outer, d) ==
    CASE d.mode = Relative /\ outer.mode = Relative ->
            [err |-> "NestedRelativeNotAllowed", config |-> undefined]
      [] d.mode = Relative /\ outer.mode = Absolute ->
            [err |-> "ok", config |-> TimeTravelConfig(Absolute, outer.param + d.param)]
      [] OTHER -> [err |-> "ok", config |-> d]

\* C11 (warp travel is ad-hoc travel): a warp command that found a row d ends
\* as the nesting table says for d under the override of its chain (none,
\* relative or absolute): rejected as a nested relative travel with the
\* override left as it was, or activated with d unchanged, or with the
\* absolute sum; and a query made right after the activation returns the
\* time of that descriptor.
WarpIsTravel_C11 ==
    [][\A t \in Ops :
         (ev'.kind = "travel.warp" /\ ev'.op = t /\ ev'.req # undefined) =>
            LET e == Combined(Own(t), Descriptor(ev'.req))
            IN  /\ ev'.outcome = e.err
                /\ e.err = "ok" =>
                      /\ Len(frames'[t]) = Len(frames[t]) + 1
                      /\ Descriptor(store'[t]) = e.config
                      /\ \A form \in QueryForms :
                            ReadClock(t, form)' = Answer(form, ExpectedNow(e.config, realNow'))
                /\ e.err # "ok" => (store'[t] = store[t] /\ frames'[t] = frames[t])]_vars

\* A stored relative warp point was travelled to under an absolute override.
WarpIsTravel_C11_Witness ==
    /\ ev.kind = "travel.warp" /\ ev.outcome = "ok"
    /\ ev.req.mode = Relative
    /\ InFlight(ev.op) /\ Top(ev.op).outer.mode = Absolute
    /\ store[ev.op] = TimeTravelConfig(Absolute, Top(ev.op).outer.param + ev.req.param)

----------------------------------------------------------------------------
(* The warp registry *)

\* The records the registry holds under an id.
Records(table, id) == {i \in 1..Len(table) : table[i].id = id}

\* Op t issues the command whose first step leaves it at position p.
Issues(t, p) == pc[t] = "run" /\ pc'[t] = p

\* Op t's command resumes from position p.
Resumes(t, p) == pc[t] = p /\ pc'[t] # p

\* C12 (create on an existing id): a create command issued for an id that has
\* a record finds that record, fails with WarpAlreadyExists and changes nothing
\* in the registry: the record keeps its mode and param and no record is added.
CreateExisting_C12 ==
    [][\A t \in Ops :
         /\ (Issues(t, "create.got") /\ Records(warps, local'[t].id) # {}) =>
                /\ local'[t].warp \in {warps[i] : i \in Records(warps, local'[t].id)}
                /\ warps' = warps
         /\ (Resumes(t, "create.got") /\ local[t].warp # undefined) =>
                /\ ev'.kind = "create" /\ ev'.op = t
                /\ ev'.outcome = "WarpAlreadyExists"
                /\ pc'[t] = "run"
                /\ warps' = warps]_vars

\* A create command for an id that still has its record has just failed.
CreateExisting_C12_Witness ==
    /\ ev.kind = "create" /\ ev.outcome = "WarpAlreadyExists"
    /\ ev.req # undefined
    /\ warps = <<ev.req>>

\* Both chains are inside a create of the same id that each of them read as absent.
Racing ==
    /\ \A t \in Ops : pc[t] \in {"create.got", "create.put"} /\ local[t].warp = undefined
    /\ local[1].id = local[2].id

Others(table, id) == SelectSeq(table, LAMBDA r : r.id # id)

\* C15 (frame of delete): a delete command that finds no record under its id
\* fails with WarpNotFound and leaves the registry as it is; one that finds a
\* record removes what the registry holds under that id and nothing else:
\* the records of every other id stay, unchanged and in their order.
DeleteFrame_C15 ==
    [][\A t \in Ops :
         /\ Issues(t, "delete.got") =>
                /\ warps' = warps
                /\ (local'[t].warp = undefined) <=> (Records(warps, local'[t].id) = {})
         /\ (Resumes(t, "delete.got") /\ local[t].warp = undefined) =>
                /\ ev'.kind = "delete" /\ ev'.outcome = "WarpNotFound"
                /\ pc'[t] = "run"
                /\ warps' = warps
         /\ (Resumes(t, "delete.got") /\ local[t].warp # undefined) =>
                /\ pc'[t] = "delete.rm"
                /\ warps' = warps
         /\ Resumes(t, "delete.rm") =>
                /\ ev'.kind = "delete" /\ ev'.outcome = "deleted"
                /\ Records(warps', local[t].id) = {}
                /\ Others(warps', local[t].id) = Others(warps, local[t].id)
                /\ Len(warps') = Len(Others(warps, local[t].id))]_vars

\* The record of one id has just been deleted and the record of the other id
\* is still there.
DeleteFrame_C15_Witness ==
    /\ ev.kind = "delete" /\ ev.outcome = "deleted"
    /\ Len(warps) = 1
    /\ warps[1].id # ev.req.id

\* The descriptor the specification gives for the arguments of a create
\* ("by" "1h" is one hour forward), where they parse.
Parsable == {<<"to", "d20">>, <<"By", "1h">>}

Created(mode, param) ==
    CASE <<mode, param>> = <<"to", "d20">> -> TimeTravelConfig(Absolute, 20)
      [] <<mode, param>> = <<"By", "1h">>  -> TimeTravelConfig(Relative, 1)

\* C14 (round trip): a successful create of an absent id with parsable
\* arguments leaves under that id exactly the descriptor of those arguments;
\* a lookup resolves what the registry holds under the id at that moment, so
\* every descriptor a warp travel resolves is one that was created, and a
\* lookup of an id without a record fails with WarpNotFound; a successful
\* delete leaves no record under the id.
RoundTrip_C14 ==
    /\ [][\A t \in Ops :
            /\ (Resumes(t, "create.put") /\ ev'.outcome = "created") =>
                   /\ <<local[t].mode, local[t].param>> \in Parsable
                   /\ Records(warps, local[t].id) = {}
                   /\ \A i \in Records(warps', local[t].id) :
                         /\ warps'[i].id = local[t].id
                         /\ Descriptor(warps'[i]) = Created(local[t].mode, local[t].param)
                   /\ Cardinality(Records(warps', local[t].id)) = 1
            /\ Issues(t, "warp.got") =>
                   IF Records(warps, local'[t].id) = {}
                   THEN local'[t].warp = undefined
                   ELSE local'[t].warp \in {warps[i] : i \in Records(warps, local'[t].id)}
            /\ Resumes(t, "warp.got") =>
                   /\ ev'.kind = "travel.warp"
                   /\ IF local[t].warp = undefined
                      THEN ev'.outcome = "WarpNotFound" /\ frames' = frames
                      ELSE ev'.req = local[t].warp
                             /\ ev'.outcome \in {"ok", "NestedRelativeNotAllowed"}
            /\ (Resumes(t, "delete.rm") /\ ev'.outcome = "deleted") =>
                   Records(warps', local[t].id) = {}]_vars
    /\ []((ev.kind = "travel.warp" /\ ev.req # undefined) =>
            \E a \in Parsable : Descriptor(ev.req) = Created(a[1], a[2]))

\* The warp point created by "by" "1h" has just been travelled to: the
\* activation asked for, and runs under, one hour forward.
RoundTrip_C14_Witness ==
    /\ ev.kind = "travel.warp" /\ ev.outcome = "ok"
    /\ ev.req = TimeTravelWarp("a", TimeTravelConfig(Relative, 1))
    /\ Descriptor(store[ev.op]) = TimeTravelConfig(Relative, 1)

----------------------------------------------------------------------------
(* The uses of Date that are not a no-argument "now" *)

\* What a use of the real Date gives at real time now.
RealUse(form, now) ==
    CASE form = "args" -> [time |-> ArgTime]
      [] form = "call" -> [str |-> now]
      [] OTHER         -> [of |-> "Date0", member |-> form]

\* C16 (pass-through): under an active override, whatever its mode and param,
\* constructing an instant from explicit arguments and reading a member of
\* the clock other than now give what the same operation gives on the real
\* clock; the no-argument paths are the only intercepted ones: Date() answers
\* with the travelled time, as Date.now() and new Date() do.
PassThrough_C16 ==
    /\ (ev.kind = "use" /\ ev.form # "call") => ev.val = RealUse(ev.form, realNow)
    /\ (ev.kind = "use" /\ ev.form = "call") =>
           ev.val = [str |-> ExpectedNow(Own(ev.op), realNow)]
    /\ \A t \in Traveller, form \in OtherForms \ {"call"} :
           UseClock(t, form) = RealUse(form, realNow)

\* Date.parse has just been read under an override whose time is not the
\* real time.
PassThrough_C16_Witness ==
    /\ ev.kind = "use" /\ ev.form = "parse"
    /\ InFlight(ev.op)
    /\ ExpectedNow(Own(ev.op), realNow) # realNow
    /\ ReadClock(ev.op, "now") # realNow

----------------------------------------------------------------------------
(* Parsing *)

\* v is a whole number of milliseconds.  The values of the model are few, and
\* one that is no integer cannot be compared with an integer: the test goes
\* through the way the value is written.
Whole(v) == ToString(v) \in {ToString(i) : i \in -100..100}

\* A descriptor of the data model: a mode and a whole number of milliseconds.
IsDescriptor(x) == x.mode \in {Absolute, Relative} /\ Whole(x.param)

\* The failure the specification gives for the arguments <mode> <param>.
ParseError(mode, param) ==
    CASE mode \notin {"to", "by", "By", "TO", "BY", "tO", "bY", "To"} -> "InvalidMode"
      [] mode \in {"to", "TO", "tO", "To"} /\ param \notin {"d10", "d20"} -> "InvalidTarget"
      [] mode \in {"by", "By", "BY", "bY"} /\ param \notin {"1h", "-2h", "1.5ms"} -> "InvalidDelta"
      [] OTHER -> "ok"

\* C17 (no descriptor from a failed parse): a mode token other than "to" or
\* "by" fails with InvalidMode, an unparsable date with InvalidTarget and an
\* unparsable duration with InvalidDelta; a create that fails so stores no
\* record and a travel that fails so activates nothing; and every descriptor
\* stored in the registry or activated has a mode of the two and a param
\* that is an integer.
ParsedOnly_C17 ==
    /\ [][\A t \in Ops :
            /\ (Resumes(t, "create.got") /\ local[t].warp = undefined) =>
                   LET e == ParseError(local[t].mode, local[t].param)
                   IN  IF e = "ok" THEN pc'[t] = "create.put"
                       ELSE /\ ev'.kind = "create" /\ ev'.outcome = e
                            /\ pc'[t] = "run" /\ warps' = warps
            /\ (ev'.op = t /\ ev'.kind \in {"travel.to", "travel.by"}
                   /\ ev'.outcome \in {"InvalidTarget", "InvalidDelta"}) =>
                   (frames' = frames /\ store' = store)]_vars
    /\ [](/\ \A i \in 1..Len(warps) : IsDescriptor(warps[i])
          /\ \A t \in Ops : \A i \in 1..Len(frames[t]) : IsDescriptor(frames[t][i].cfg))

\* A create with a mode that is no mode has just failed and stored nothing.
ParsedOnly_C17_Witness ==
    /\ ev.kind = "create" /\ ev.outcome = "InvalidMode"
    /\ warps = <<>>

----------------------------------------------------------------------------
(* Chains of nested activations *)

\* C18 (relative only at the root): in every chain of nested activations a
\* Relative descriptor is active only in the outermost one; every activation
\* that began while another override was active runs under an Absolute
\* descriptor, and so does every scope that is not the outermost.
RelativeAtRoot_C18 ==
    \A t \in Ops :
        /\ \A i \in 1..Len(frames[t]) :
              (i > 1 \/ frames[t][i].outer # undefined) =>
                  frames[t][i].cfg.mode = Absolute
        /\ store[t].mode = Relative =>
              (Len(frames[t]) = 1 /\ frames[t][1].outer = undefined)

\* A relative travel was accepted inside an absolute one: the inner scope is
\* Absolute although it asked for Relative.
RelativeAtRoot_C18_Witness ==
    \E t \in Ops :
        /\ Len(frames[t]) = 2
        /\ frames[t][2].req.mode = Relative
        /\ frames[t][2].outer.mode = Absolute
        /\ store[t].mode = Absolute

\* The sum of the params asked for by the activations i..Len(fs) of a chain.
RECURSIVE SumReq(_, _)
SumReq(fs, i) == IF i > Len(fs) THEN 0 ELSE fs[i].req.param + SumReq(fs, i + 1)

\* C19 (nearest override only): the nesting rule looks at the override of the
\* scope the request is made in and at nothing outside it.  A Relative
\* request made in an Absolute scope is accepted whatever encloses that
\* scope, a Relative root included, and gives the Absolute sum of the scope's
\* param and its own; so Relative requests nested one inside the other under
\* an Absolute A are all accepted and the innermost scope is A plus all of
\* their params.
NearestOnly_C19 ==
    /\ [][\A t \in Ops :
            (ev'.op = t /\ ev'.kind = "travel.by" /\ ev'.req.mode = Relative
               /\ store[t].mode = Absolute) =>
                  /\ ev'.outcome = "ok"
                  /\ store'[t] = TimeTravelConfig(Absolute, store[t].param + ev'.req.param)]_vars
    /\ [](\A t \in Ops : \A i \in 2..Len(frames[t]) :
            /\ (frames[t][i].req.mode = Relative) =>
                  frames[t][i].cfg =
                     TimeTravelConfig(Absolute, frames[t][i-1].cfg.param + frames[t][i].req.param)
            /\ (frames[t][i-1].req.mode = Absolute
                  /\ \A j \in i..Len(frames[t]) : frames[t][j].req.mode = Relative) =>
                  store[t] = TimeTravelConfig(Absolute,
                                frames[t][i-1].req.param + SumReq(frames[t], i)))

\* Relative inside Absolute inside Relative: the innermost request was
\* accepted under a Relative root and runs under the Absolute sum.
NearestOnly_C19_Witness ==
    \E t \in Ops :
        /\ Len(frames[t]) = 3
        /\ frames[t][1].cfg.mode = Relative
        /\ frames[t][2].req.mode = Absolute
        /\ frames[t][3].req.mode = Relative
        /\ ev.kind = "travel.by" /\ ev.op = t /\ ev.outcome = "ok"
        /\ store[t] = TimeTravelConfig(Absolute, frames[t][2].req.param + frames[t][3].req.param)

====
